---- MODULE Spec2Model ----
(***************************************************************************)
(* Model of the statement executor of sf-connect-starter:                  *)
(* SnowflakeService.execute_sql (src/app/services/snowflake.py) with its   *)
(* helpers _validate_sql, _poll_for_result, _fetch_all_pages,              *)
(* _cancel_query and _process_result.  One action is one stretch of code   *)
(* between two suspension points (await) of the coroutine: a request is    *)
(* sent at the end of an action, and the next action consumes the reply.   *)
(* The remote API, the clock and the credential issuer are the             *)
(* environment: their answers are drawn from small sets.                   *)
(***************************************************************************)
EXTENDS Integers, Sequences, FiniteSets, TLC

VARIABLES
    pc,               \* suspension point of the execute_sql coroutine
    now,              \* time.monotonic(), in ticks
    timeout,          \* execute_sql parameter
    poll_interval,    \* execute_sql parameter
    start_time,       \* local of _poll_for_result
    headers,          \* local `headers` (id of the token they carry, 0 = none)
    handle,           \* local `handle` of execute_sql
    result,           \* local `result` of execute_sql (first page)
    rows,             \* local `rows` of _fetch_all_pages
    next_token,       \* local `next_token` of _fetch_all_pages
    outcome,          \* what execute_sql returned or raised
    minted,           \* number of tokens signed by get_auth_headers
    sent,             \* history: requests put on the wire, in order
    pollLog,          \* history: status of every status-poll reply
    pageLog,          \* history: data of every page consumed, in order
    lastToken,        \* history: continuation token of the last page consumed
    submit_time,      \* history: time of the first submission
    deadlineSeen,     \* history: the poll loop saw elapsed > timeout
    cancelReply,      \* history: how the cancel request ended
    validation,       \* history: how the dry run ended
    execSeen,         \* history: what the execution request was answered
    hist,             \* history: the request that failed, the first page
    issued,           \* payloads of the tokens signed so far, by id
    phase,            \* the application: "created", "serving" or "stopped"
    clients,          \* every httpx.AsyncClient constructed, in order
    requests,         \* the HTTP requests received, with their status
    self,             \* which of two execute_sql calls is running (1 or 2)
    parked,           \* the frame of the call that is suspended meanwhile
    parameters,       \* the values of a parameter mapping, in insertion order
    bindings,         \* what _format_bindings made of them
    keyFile,          \* what is at private_key_path
    private_key,      \* SnowflakeKeyPair.private_key
    public_key_fp,    \* SnowflakeKeyPair.public_key_fp
    keyLog            \* history: how every load_private_key call ended

\* the frame of one execute_sql call, the clock and the token issuer
callVars == <<pc, now, timeout, poll_interval, start_time, headers, handle,
              result, rows, next_token, outcome, minted, sent, pollLog,
              pageLog, lastToken, submit_time, deadlineSeen, cancelReply,
              validation, execSeen, hist, issued>>
appVars == <<phase, clients, requests>>
pairVars == <<self, parked>>
bindVars == <<parameters, bindings>>
keyVars == <<keyFile, private_key, public_key_fp, keyLog>>

vars == <<callVars, appVars, pairVars, bindVars, keyVars>>

----------------------------------------------------------------------------
(* Bounds of the model.  Time is counted in ticks far longer than the code  *)
(* between two awaits, so a timeout is at least one tick.                  *)

MaxTimeout == 1
MaxPollInterval == 1
MaxDelay == 1
MaxPages == 2
MaxPageRows == 1
MaxRowVal == 2

(* Program constants *)

SuccessCode == "090001"
TokenTTL == 3600
RunningCode == "333333"
AcceptedStatus == 202

(* Values of the remote's replies *)

OtherCode == "002003"
NoHandle == "none"
NoToken == 0
NoMsg == "none"
NoNum == -1

Codes == {SuccessCode, RunningCode, OtherCode}
Handles == {"h1"}
\* the remote names the page that follows the n-th page it served n
TokensAfter(n) == IF n <= MaxPages THEN {NoToken, n} ELSE {NoToken}
Tokens == 1..MaxPages
Messages == {"m1"}
HttpOk == {200, AcceptedStatus}
SuccessStatuses == {"SUCCESS", "SUCCEEDED"}
FailureStatuses == {"FAILED", "ABORTED", "FAILED_WITH_ERROR"}
\* any status outside the two lists, an absent one included, is handled as
\* "RUNNING" is
Statuses == SuccessStatuses \cup FailureStatuses \cup {"RUNNING"}

RowVals == 1..MaxRowVal
SeqsUpTo(S, n) == UNION {[1..k -> S] : k \in 0..n}
PageData == SeqsUpTo(RowVals, MaxPageRows)
Delays == 0..MaxDelay

(* How a request can end: a reply that parses ("none"), a reply with an    *)
(* HTTP error status ("http"), a transport exception ("transport"), or a   *)
(* body that response.json() cannot decode ("decode").                     *)
Errs == {"http", "transport", "decode"}

NoResult == [code |-> OtherCode, message |-> NoMsg, numRows |-> NoNum,
             statementHandle |-> NoHandle]

Pending == [status |-> "pending", kind |-> "none", cause |-> "none",
            message |-> NoMsg, data |-> <<>>, row_count |-> 0,
            query_id |-> NoHandle]

Failure(kind, cause, msg) ==
    [status |-> "error", kind |-> kind, cause |-> cause, message |-> msg,
     data |-> <<>>, row_count |-> 0, query_id |-> NoHandle]

\* what the history keeps of the reply to the execution request
NotSeen == [kind |-> "none", code |-> OtherCode, token |-> NoToken,
            data |-> <<>>]
SeenError == [NotSeen EXCEPT !.kind = "error"]
SeenRunning == [NotSeen EXCEPT !.kind = "running"]
SeenSync(r) == [kind |-> "sync", code |-> r.code, token |-> r.nextPageToken,
                data |-> r.data]

\* what the history keeps besides: the request that did not come back with a
\* reply that parses (or the header request that raised), the code, message
\* and handle the remote gave, and the time the poll loop was entered
NoHist == [failed |-> <<"none", "none">>, firstCode |-> OtherCode,
           firstMsg |-> NoMsg, firstNum |-> NoNum, gotHandle |-> NoHandle,
           loopStart |-> 0]
HistFailed(kind, err) == [hist EXCEPT !.failed = <<kind, err>>]

\* the locals of a call that has not started
IdleFrame ==
    [pc |-> "idle", timeout |-> 1, poll_interval |-> 1, start_time |-> 0,
     headers |-> 0, handle |-> NoHandle, result |-> NoResult, rows |-> <<>>,
     next_token |-> NoToken, outcome |-> Pending, sent |-> <<>>,
     pollLog |-> <<>>, pageLog |-> <<>>, lastToken |-> NoToken,
     submit_time |-> 0, deadlineSeen |-> FALSE, cancelReply |-> "none",
     validation |-> "none", execSeen |-> NotSeen, hist |-> NoHist]

\* _format_bindings has not run
NotEncoded == [status |-> "none", map |-> {}]

Request(kind, hdr, arg) == [kind |-> kind, hdr |-> hdr, arg |-> arg]

Count(kind) == Cardinality({i \in 1..Len(sent) : sent[i].kind = kind})

RECURSIVE Flatten(_)
Flatten(ss) == IF ss = <<>> THEN <<>> ELSE Head(ss) \o Flatten(Tail(ss))

----------------------------------------------------------------------------
(* Replies of the environment.  The fields of a reply that did not parse   *)
(* are never read, so they are fixed.                                      *)

ValidateReplies ==
    {r \in [err : Errs \cup {"none"}, code : Codes,
            message : Messages \cup {NoMsg}] :
        r.err # "none" => (r.code = OtherCode /\ r.message = NoMsg)}

ExecReplies ==
    {r \in [err : Errs \cup {"none"}, http : HttpOk, code : Codes,
            message : Messages \cup {NoMsg},
            statementHandle : Handles \cup {NoHandle},
            data : PageData, nextPageToken : Tokens \cup {NoToken},
            numRows : {NoNum, 1}] :
        /\ r.nextPageToken \in TokensAfter(1)
        /\ r.err # "none" =>
            /\ r.http = 200 /\ r.code = OtherCode /\ r.message = NoMsg
            /\ r.statementHandle = NoHandle /\ r.data = <<>>
            /\ r.nextPageToken = NoToken /\ r.numRows = NoNum}

PollReplies ==
    {r \in [err : Errs \cup {"none"}, status : Statuses, code : Codes,
            message : Messages \cup {NoMsg},
            statementHandle : Handles \cup {NoHandle},
            data : PageData, nextPageToken : Tokens \cup {NoToken},
            numRows : {NoNum, 1}] :
        /\ r.nextPageToken \in TokensAfter(1)
        /\ r.err # "none" =>
            /\ r.status = "RUNNING" /\ r.code = OtherCode /\ r.message = NoMsg
            /\ r.statementHandle = NoHandle /\ r.data = <<>>
            /\ r.nextPageToken = NoToken /\ r.numRows = NoNum}

\* the metadata of a page that is fetched declares another number of rows
\* than a first page does
LaterNumRows == 2

PageReplies ==
    {r \in [err : Errs \cup {"none"}, data : PageData,
            nextPageToken : Tokens \cup {NoToken},
            numRows : {LaterNumRows}] :
        r.err # "none" => (r.data = <<>> /\ r.nextPageToken = NoToken)}

CancelReplies == {"ok", "http", "transport"}

----------------------------------------------------------------------------
(* Decisions of the code *)

\* a dry run that only looks for a reply that parses
ValidationOk_AnyCode(r) == TRUE

\* _validate_sql, line 75: the dry run passed
ValidationOk(r) == r.code = SuccessCode

\* _validate_sql, lines 69-83: the exception a failed dry run ends in
ValidationFailure(r) ==
    IF r.err = "http" THEN Failure("ValidationApi", "http_status", NoMsg)
    ELSE IF r.err = "transport" THEN Failure("Validation", "transport", NoMsg)
    ELSE IF r.err = "decode" THEN Failure("Validation", "decode", NoMsg)
    ELSE Failure("Validation", "code", r.message)

\* a failed request reported as a failed query
TransportFailure_AsQueryFailed(err) ==
    Failure("Execution", "query_failed", NoMsg)

\* execute_sql, lines 145-151: the exception a failed request ends in
TransportFailure(err) ==
    IF err = "http" THEN Failure("Api", "http_status", NoMsg)
    ELSE Failure("Execution", err, NoMsg)

\* get_auth_headers, lines 140-141
AuthFailure == Failure("AuthHeaders", "credential", NoMsg)

\* a get_auth_headers that logs the exception and returns headers all the same
AuthRaises_Swallowed(ok) == FALSE

\* get_auth_headers, lines 130-141: an exception of create_jwt_token is
\* raised again
AuthRaises(ok) == ~ok

\* a token whose expiry is not counted from its issue
IssueToken_AbsoluteExpiry(t) == [iat |-> t, exp |-> TokenTTL]

\* create_jwt_token, lines 100-112: the time claims of the payload
IssueToken(t) == [iat |-> t, exp |-> t + TokenTTL]

\* a token kept and handed out again
CreateJwtToken_Cached(tokens, t) ==
    IF tokens = <<>> THEN IssueToken(t) ELSE tokens[Len(tokens)]

\* create_jwt_token, lines 95-117: a token is signed at every call, whatever
\* was signed before
CreateJwtToken(tokens, t) == IssueToken(t)

\* a failed request sent once more
Retried_Transport(cause) == cause = "transport"

\* execute_sql, lines 145-151, _validate_sql, lines 77-83: the handlers
\* raise; no request is sent a second time
Retried(cause) == FALSE

\* a test that sends every parsed reply to the poll loop
IsRunning_Always(r) == TRUE

\* a test that takes every reply without the success code for a running one
IsRunning_UnlessSuccess(r) == r.code # SuccessCode

\* execute_sql, line 138: the statement is still running
IsRunning(r) == r.http = AcceptedStatus \/ r.code = RunningCode

\* a deadline test that fires one tick early
DeadlineExceeded_Eager(t, st, to) == t - st >= to

\* _poll_for_result, line 199
\* a poll loop without a deadline
DeadlineExceeded_Never(t, st, to) == FALSE

DeadlineExceeded(t, st, to) == t - st > to

\* a loop that knows "SUCCESS" only
PollVerdict_OneSpelling(status) ==
    IF status = "SUCCESS" THEN "return"
    ELSE IF status \in FailureStatuses THEN "raise"
    ELSE "sleep"

\* _poll_for_result, lines 211-216: what the loop does with a status
PollVerdict(status) ==
    IF status \in SuccessStatuses THEN "return"
    ELSE IF status \in FailureStatuses THEN "raise"
    ELSE "sleep"

\* _poll_for_result, line 214, as wrapped by execute_sql, line 151
QueryFailed(msg) == Failure("Execution", "query_failed", msg)

\* a deadline reported as a failed query
TimedOut_AsQueryFailed == Failure("Execution", "query_failed", NoMsg)

\* _poll_for_result, line 201, as wrapped by execute_sql, line 151
TimedOut == Failure("Execution", "timeout", NoMsg)

\* a loop that cancels before every exception
CancelBeforeRaise_Always(cause) == TRUE

\* _poll_for_result, lines 198-216: the one call of _cancel_query, line 200,
\* precedes the TimeoutError; lines 204 and 214 raise without it
CancelBeforeRaise(cause) == cause = "timeout"

\* a cancel that lets a transport exception through
CancelQueryRaises_Transport(reply) == reply = "transport"

\* _cancel_query, lines 244-247: every exception of the request is logged,
\* and the status of the reply is never looked at
CancelQueryRaises(reply) == FALSE

\* an `if` in place of the `while`: one page is fetched at most
\* a decode without pagination
MorePages_None(h, tok) == FALSE

MorePages_Once(h, tok) == h # NoHandle /\ tok = 1

\* _fetch_all_pages, line 229
MorePages(h, tok) == h # NoHandle /\ tok # NoToken

\* an append that skips the rows it already has
Extend_Dedup(rws, data) ==
    rws \o SelectSeq(data, LAMBDA x : \A i \in 1..Len(rws) : rws[i] # x)

\* _fetch_all_pages, line 234
Extend(rws, data) == rws \o data

\* a decoder that does not look at the code
ProcessResult_NoCheck(res, rws) ==
    [status |-> "success", kind |-> "none", cause |-> "none",
     message |-> NoMsg, data |-> rws,
     row_count |-> IF res.numRows = NoNum THEN 0 ELSE res.numRows,
     query_id |-> res.statementHandle]

\* _process_result, lines 249-266, with the wrapping of execute_sql, line 151
ProcessResult(res, rws) ==
    IF res.code # SuccessCode THEN QueryFailed(res.message)
    ELSE [status |-> "success", kind |-> "none", cause |-> "none",
          message |-> NoMsg, data |-> rws,
          row_count |-> IF res.numRows = NoNum THEN 0 ELSE res.numRows,
          query_id |-> res.statementHandle]

FirstPage(r) == [code |-> r.code, message |-> r.message,
                 numRows |-> r.numRows, statementHandle |-> r.statementHandle]

\* a pagination that takes the metadata of the page just fetched
KeepMeta_FromPage(res, page) == [res EXCEPT !.numRows = page.numRows]

\* _fetch_all_pages, lines 226 and 238: the metadata of the result stays
\* that of the first page, whatever a fetched page carries
KeepMeta(res, page) == res

----------------------------------------------------------------------------
(* Pieces of control flow shared by several actions *)

\* execute_sql returns or raises
Complete(o, log) ==
    /\ pc' = "done"
    /\ outcome' = o
    /\ sent' = log

\* the head of the loop of _fetch_all_pages, lines 229-239, followed by
\* _process_result when the loop is left
PageLoop(res, rws, tok, h, hdr) ==
    /\ result' = res
    /\ rows' = rws
    /\ next_token' = tok
    /\ IF MorePages(h, tok)
       THEN /\ pc' = "page_wait"
            /\ sent' = Append(sent, Request("page", hdr, tok))
            /\ outcome' = outcome
       ELSE Complete(ProcessResult(res, rws), sent)

\* an exception reaches the handlers of execute_sql or _validate_sql
Fail(exc) ==
    IF Retried(exc.cause)
    THEN /\ pc' = pc
         /\ sent' = Append(sent, sent[Len(sent)])
         /\ outcome' = outcome
    ELSE Complete(exc, sent)

\* an exception leaves _poll_for_result: _cancel_query is awaited first
\* where the code calls it
Raise(exc, h, hdr) ==
    IF CancelBeforeRaise(exc.cause)
    THEN /\ pc' = "cancel_wait"
         /\ sent' = Append(sent, Request("cancel", hdr, h))
         /\ outcome' = outcome
    ELSE Fail(exc)

\* get_auth_headers, lines 128-139, for the request `kind`
SendWithNewHeaders(kind, nextpc, t) ==
    /\ issued' = Append(issued, CreateJwtToken(issued, t))
    /\ minted' = minted + 1
    /\ headers' = minted + 1
    /\ pc' = nextpc
    /\ sent' = Append(sent, Request(kind, minted + 1, "sql"))
    /\ outcome' = outcome

\* the head of the loop of _poll_for_result, lines 198-203
PollLoop(t, st, h, hdr) ==
    /\ deadlineSeen' = (deadlineSeen \/ t - st > timeout)
    /\ IF DeadlineExceeded(t, st, timeout)
       THEN Raise(TimedOut, h, hdr)
       ELSE /\ pc' = "poll_wait"
            /\ sent' = Append(sent, Request("poll", hdr, h))
            /\ outcome' = outcome

----------------------------------------------------------------------------
InitExecutor ==
    /\ pc = "idle"
    /\ now = 0
    /\ timeout = 1
    /\ poll_interval = 1
    /\ start_time = 0
    /\ headers = 0
    /\ handle = NoHandle
    /\ result = NoResult
    /\ rows = <<>>
    /\ next_token = NoToken
    /\ outcome = Pending
    /\ minted = 0
    /\ sent = <<>>
    /\ pollLog = <<>>
    /\ pageLog = <<>>
    /\ lastToken = NoToken
    /\ submit_time = 0
    /\ deadlineSeen = FALSE
    /\ cancelReply = "none"
    /\ validation = "none"
    /\ execSeen = NotSeen
    /\ hist = NoHist
    /\ issued = <<>>
    /\ phase = "created"
    /\ clients = <<>>
    /\ requests = <<>>
    /\ self = 1
    /\ parked = IdleFrame

\* SnowflakeKeyPair.__init__, keypair_auth1.py lines 13-21
InitKey ==
    /\ keyFile = [key |-> "k1", readable |-> TRUE, decrypts |-> TRUE]
    /\ private_key = "none"
    /\ public_key_fp = "none"
    /\ keyLog = <<>>

Init ==
    /\ InitExecutor
    /\ InitKey
    /\ parameters = <<>>
    /\ bindings = NotEncoded

\* execute_sql is called: lines 100-107, then _validate_sql up to the await
\* of line 70
Call(to, pi, authOk) ==
    /\ pc = "idle"
    /\ UNCHANGED <<appVars, pairVars, bindVars, keyVars>>
    /\ timeout' = to
    /\ poll_interval' = pi
    /\ submit_time' = now
    /\ hist' = IF authOk THEN hist ELSE HistFailed("auth", "credential")
    /\ IF ~AuthRaises(authOk)
       THEN SendWithNewHeaders("validate", "validate_wait", now)
       ELSE /\ UNCHANGED <<minted, headers, issued>>
            /\ Complete(AuthFailure, sent)
    /\ UNCHANGED <<now, start_time, handle, result, rows, next_token, pollLog,
                   pageLog, lastToken, deadlineSeen, cancelReply, validation,
                   execSeen>>

\* the dry run is answered: _validate_sql lines 73-83, then execute_sql
\* lines 112-131 up to the await of line 127
ValidateResponse(r, d, authOk) ==
    /\ pc = "validate_wait"
    /\ UNCHANGED <<appVars, pairVars, bindVars, keyVars>>
    /\ now' = now + d
    /\ validation' = IF r.err = "none" /\ r.code = SuccessCode
                     THEN "passed" ELSE "failed"
    /\ hist' = IF r.err # "none" THEN HistFailed("validate", r.err)
               ELSE IF r.code # SuccessCode THEN HistFailed("validate", "code")
               ELSE IF ~authOk THEN HistFailed("auth", "credential")
               ELSE hist
    /\ IF r.err # "none" \/ ~ValidationOk(r)
       THEN /\ Fail(ValidationFailure(r))
            /\ UNCHANGED <<minted, headers, issued>>
       ELSE IF ~AuthRaises(authOk)
       THEN SendWithNewHeaders("execute", "execute_wait", now')
       ELSE /\ UNCHANGED <<minted, headers, issued>>
            /\ Complete(AuthFailure, sent)
    /\ UNCHANGED <<timeout, poll_interval, start_time, handle, result, rows,
                   next_token, pollLog, pageLog, lastToken, submit_time,
                   deadlineSeen, cancelReply, execSeen>>

\* the statement is answered: execute_sql lines 132-143 up to the next await
\* (the first status poll, the cancel, the first page fetch) or to the end
ExecuteResponse(r, d) ==
    /\ pc = "execute_wait"
    /\ UNCHANGED <<appVars, pairVars, bindVars, keyVars>>
    /\ now' = now + d
    /\ execSeen' = IF r.err # "none" THEN SeenError
                   ELSE IF r.http = AcceptedStatus \/ r.code = RunningCode
                        THEN SeenRunning
                   ELSE SeenSync(r)
    /\ hist' = IF r.err # "none" THEN HistFailed("execute", r.err)
               ELSE IF r.http = AcceptedStatus \/ r.code = RunningCode
               THEN [hist EXCEPT !.gotHandle = r.statementHandle,
                                 !.loopStart = now']
               ELSE [hist EXCEPT !.gotHandle = r.statementHandle,
                                 !.firstCode = r.code,
                                 !.firstMsg = r.message,
                                 !.firstNum = r.numRows]
    /\ IF r.err # "none"
       THEN /\ Fail(TransportFailure(r.err))
            /\ UNCHANGED <<handle, start_time, result, rows, next_token,
                           pageLog, lastToken, deadlineSeen>>
       ELSE /\ handle' = r.statementHandle
            /\ IF IsRunning(r)
               THEN /\ start_time' = now'
                    /\ PollLoop(now', now', r.statementHandle, headers)
                    /\ UNCHANGED <<result, rows, next_token, pageLog,
                                   lastToken>>
               ELSE /\ pageLog' = <<r.data>>
                    /\ lastToken' = r.nextPageToken
                    /\ PageLoop(FirstPage(r), r.data, r.nextPageToken,
                                r.statementHandle, headers)
                    /\ UNCHANGED <<start_time, deadlineSeen>>
    /\ UNCHANGED <<timeout, poll_interval, headers, minted, pollLog,
                   submit_time, cancelReply, validation, issued>>

\* a status poll is answered: _poll_for_result lines 204-216
PollResponse(r, d) ==
    /\ pc = "poll_wait"
    /\ UNCHANGED <<appVars, pairVars, bindVars, keyVars>>
    /\ now' = now + d
    /\ hist' = IF r.err # "none" THEN HistFailed("poll", r.err)
               ELSE IF r.status \in {"SUCCESS", "SUCCEEDED"}
               THEN [hist EXCEPT !.firstCode = r.code, !.firstMsg = r.message,
                                 !.firstNum = r.numRows]
               ELSE hist
    /\ IF r.err # "none"
       THEN /\ Raise(TransportFailure(r.err), handle, headers)
            /\ UNCHANGED <<pollLog, result, rows, next_token, pageLog,
                           lastToken>>
       ELSE /\ pollLog' = Append(pollLog, r.status)
            /\ IF PollVerdict(r.status) = "return"
               THEN /\ pageLog' = <<r.data>>
                    /\ lastToken' = r.nextPageToken
                    /\ PageLoop(FirstPage(r), r.data, r.nextPageToken,
                                handle, headers)
               ELSE IF PollVerdict(r.status) = "raise"
               THEN /\ Raise(QueryFailed(r.message), handle, headers)
                    /\ UNCHANGED <<result, rows, next_token, pageLog,
                                   lastToken>>
               ELSE /\ pc' = "sleeping"
                    /\ UNCHANGED <<outcome, sent, result, rows, next_token,
                                   pageLog, lastToken>>
    /\ UNCHANGED <<timeout, poll_interval, start_time, headers, handle,
                   minted, submit_time, deadlineSeen, cancelReply, validation,
                   execSeen, issued>>

\* asyncio.sleep(poll_interval) returns: line 216, then lines 198-203.  The
\* sleep lasts the interval; a later wake-up gives the loop head the same
\* elapsed times as a slower reply to the poll before it.
SleepDone ==
    /\ pc = "sleeping"
    /\ UNCHANGED <<appVars, pairVars, bindVars, keyVars>>
    /\ now' = now + poll_interval
    /\ PollLoop(now', start_time, handle, headers)
    /\ UNCHANGED <<timeout, poll_interval, start_time, headers, handle,
                   result, rows, next_token, minted, pollLog, pageLog,
                   lastToken, submit_time, cancelReply, validation, execSeen,
                   hist, issued>>

\* the cancel request ends: _cancel_query lines 245-247, then line 201
CancelResponse(reply, d) ==
    /\ pc = "cancel_wait"
    /\ UNCHANGED <<appVars, pairVars, bindVars, keyVars>>
    /\ now' = now + d
    /\ cancelReply' = reply
    /\ IF CancelQueryRaises(reply)
       THEN Complete(TransportFailure(reply), sent)
       ELSE Complete(TimedOut, sent)
    /\ UNCHANGED <<timeout, poll_interval, start_time, headers, handle,
                   result, rows, next_token, minted, pollLog, pageLog,
                   lastToken, submit_time, deadlineSeen, validation,
                   execSeen, hist, issued>>

\* a page fetch is answered: _fetch_all_pages lines 232-239, then line 143
PageResponse(r, d) ==
    /\ pc = "page_wait"
    /\ UNCHANGED <<appVars, pairVars, bindVars, keyVars>>
    /\ r.nextPageToken \in TokensAfter(Len(pageLog) + 1)
    /\ now' = now + d
    /\ hist' = IF r.err # "none" THEN HistFailed("page", r.err) ELSE hist
    /\ IF r.err # "none"
       THEN /\ Fail(TransportFailure(r.err))
            /\ UNCHANGED <<result, rows, next_token, pageLog, lastToken>>
       ELSE /\ pageLog' = Append(pageLog, r.data)
            /\ lastToken' = r.nextPageToken
            /\ PageLoop(KeepMeta(result, r), Extend(rows, r.data),
                        r.nextPageToken, handle, headers)
    /\ UNCHANGED <<timeout, poll_interval, start_time, headers, handle,
                   minted, pollLog, submit_time, deadlineSeen, cancelReply,
                   validation, execSeen, issued>>

Next ==
    \/ \E to \in 1..MaxTimeout, pi \in 1..MaxPollInterval, a \in BOOLEAN :
          Call(to, pi, a)
    \/ \E r \in ValidateReplies, d \in Delays, a \in BOOLEAN :
          ValidateResponse(r, d, a)
    \/ \E r \in ExecReplies, d \in Delays : ExecuteResponse(r, d)
    \/ \E r \in PollReplies, d \in Delays : PollResponse(r, d)
    \/ SleepDone
    \/ \E reply \in CancelReplies, d \in Delays : CancelResponse(reply, d)
    \/ \E r \in PageReplies, d \in Delays : PageResponse(r, d)

Spec == Init /\ [][Next]_vars

TypeOK ==
    /\ pc \in {"idle", "validate_wait", "execute_wait", "poll_wait",
               "sleeping", "cancel_wait", "page_wait", "done"}
    /\ now \in Nat
    /\ Len(sent) <= 64

----------------------------------------------------------------------------
(* The application around the executor: src/app/main.py and                *)
(* src/app/routes/api.py.  Every handler builds its own SnowflakeService;  *)
(* what execute_sql does inside a handler is the machine above, and here   *)
(* only whether it returned or raised is kept.                             *)

MaxRequests == 2

QueryEndpoints == {"query", "query_get"}

\* SnowflakeService.__init__, line 23: no caller passes a client, so the
\* constructor makes a new AsyncClient.  SnowflakeService.close, lines
\* 39-40, is the only place a client is closed, and nothing calls it.
Acquire(cs, owner) == Append(cs, [owner |-> owner, closed |-> FALSE])

\* startup_event, main.py lines 20-46: the connection test; its failures
\* are logged and the application serves all the same
Startup(authOk, ok) ==
    /\ phase = "created"
    /\ clients' = Acquire(clients, "startup")
    /\ phase' = "serving"
    /\ UNCHANGED <<requests, callVars, pairVars, bindVars,
                   keyVars>>

\* a query endpoint: get_snowflake_service, api.py lines 11-16, then the
\* handler up to the await of execute_sql (lines 88-94, 111-117)
BeginQuery(ep, authOk, found) ==
    /\ phase = "serving"
    /\ Len(requests) < MaxRequests
    /\ clients' = Acquire(clients, ep)
    /\ requests' = Append(requests,
          [endpoint |-> ep,
           auth |-> IF authOk THEN "ok" ELSE "false",
           status |-> IF ~authOk THEN "401"
                      ELSE IF ~found THEN "404"
                      ELSE "executing"])
    /\ UNCHANGED <<phase, callVars, pairVars, bindVars,
                   keyVars>>

\* execute_sql returned or raised: api.py lines 96 and 101-103 (119 and
\* 124-126)
FinishQuery(i, ok) ==
    /\ phase = "serving"
    /\ requests[i].status = "executing"
    /\ requests' = [requests EXCEPT ![i].status = IF ok THEN "200" ELSE "500"]
    /\ UNCHANGED <<phase, clients, callVars, pairVars, bindVars,
                   keyVars>>

\* what building a service and calling authenticate() comes to: true, false
\* (test_key_decryption, keypair_auth1.py lines 119-126, catches every
\* failure of the key and returns False), or an exception of the constructor
AuthResults == {"ok", "false", "raised"}

\* test_authentication, api.py lines 60-80: the HTTPException of line 76 is
\* raised inside the try and caught by the handler of line 78
TestAuthentication(auth) ==
    /\ phase = "serving"
    /\ Len(requests) < MaxRequests
    /\ clients' = Acquire(clients, "test_auth")
    /\ requests' = Append(requests,
          [endpoint |-> "test_auth",
           auth |-> auth,
           status |-> IF auth = "ok" THEN "200" ELSE "500"])
    /\ UNCHANGED <<phase, callVars, pairVars, bindVars,
                   keyVars>>

\* the server stops once the requests in flight are answered; main.py
\* registers no shutdown handler
Shutdown ==
    /\ phase = "serving"
    /\ \A i \in 1..Len(requests) : requests[i].status # "executing"
    /\ phase' = "stopped"
    /\ UNCHANGED <<clients, requests, callVars, pairVars, bindVars,
                   keyVars>>

NextApp ==
    \/ \E a \in BOOLEAN, ok \in BOOLEAN : Startup(a, ok)
    \/ \E ep \in QueryEndpoints, a \in BOOLEAN, f \in BOOLEAN :
          BeginQuery(ep, a, f)
    \/ \E i \in 1..Len(requests), ok \in BOOLEAN : FinishQuery(i, ok)
    \/ \E a \in AuthResults : TestAuthentication(a)
    \/ Shutdown

SpecApp == Init /\ [][NextApp]_vars

----------------------------------------------------------------------------
(* Two execute_sql calls on one service object, interleaved by the event   *)
(* loop at their awaits.  The variables of the machine above are the frame *)
(* of the call that runs; the frame of the other one is parked.  The clock *)
(* and the token issuer are shared.  The remote answers call i with the    *)
(* handle and the rows of statement i.                                     *)

PairHandle(id) == IF id = 1 THEN "h1" ELSE "h2"
PairData(id) == <<id>>

PairValidateReplies ==
    {[err |-> "none", code |-> SuccessCode, message |-> NoMsg],
     [err |-> "transport", code |-> OtherCode, message |-> NoMsg]}

PairExecReplies(id) ==
    {[err |-> "none", http |-> AcceptedStatus, code |-> RunningCode,
      message |-> NoMsg, statementHandle |-> PairHandle(id), data |-> <<>>,
      nextPageToken |-> NoToken, numRows |-> NoNum],
     [err |-> "none", http |-> 200, code |-> SuccessCode,
      message |-> NoMsg, statementHandle |-> PairHandle(id),
      data |-> PairData(id), nextPageToken |-> 1, numRows |-> 1]}

PairPollReplies(id) ==
    {[err |-> "none", status |-> "RUNNING", code |-> OtherCode,
      message |-> NoMsg, statementHandle |-> PairHandle(id), data |-> <<>>,
      nextPageToken |-> NoToken, numRows |-> NoNum],
     [err |-> "none", status |-> "SUCCESS", code |-> SuccessCode,
      message |-> NoMsg, statementHandle |-> PairHandle(id),
      data |-> PairData(id), nextPageToken |-> 1, numRows |-> 1],
     [err |-> "none", status |-> "FAILED", code |-> OtherCode,
      message |-> "m1", statementHandle |-> PairHandle(id), data |-> <<>>,
      nextPageToken |-> NoToken, numRows |-> NoNum]}

PairPageReplies(id) ==
    {[err |-> "none", data |-> PairData(id), nextPageToken |-> NoToken,
      numRows |-> LaterNumRows],
     [err |-> "transport", data |-> <<>>, nextPageToken |-> NoToken,
      numRows |-> LaterNumRows]}

\* the locals of the call that runs
CurrentFrame ==
    [pc |-> pc, timeout |-> timeout, poll_interval |-> poll_interval,
     start_time |-> start_time, headers |-> headers, handle |-> handle,
     result |-> result, rows |-> rows, next_token |-> next_token,
     outcome |-> outcome, sent |-> sent, pollLog |-> pollLog,
     pageLog |-> pageLog, lastToken |-> lastToken,
     submit_time |-> submit_time, deadlineSeen |-> deadlineSeen,
     cancelReply |-> cancelReply, validation |-> validation,
     execSeen |-> execSeen, hist |-> hist]

\* a row buffer kept on the service object instead of in the call
ResumeFrame_SharedRows(mine, theirs) == [theirs EXCEPT !.rows = mine.rows]

\* what a coroutine finds when it is resumed: execute_sql and its helpers
\* assign local names only (headers, handle, result, rows, next_token,
\* start_time), so it finds its own frame
ResumeFrame(mine, theirs) == theirs

\* the call that runs is suspended at an await and the event loop resumes
\* the other one
Switch ==
    /\ parked.pc # "done"
    /\ parked' = CurrentFrame
    /\ self' = 3 - self
    /\ LET f == ResumeFrame(CurrentFrame, parked) IN
          /\ pc' = f.pc
          /\ timeout' = f.timeout
          /\ poll_interval' = f.poll_interval
          /\ start_time' = f.start_time
          /\ headers' = f.headers
          /\ handle' = f.handle
          /\ result' = f.result
          /\ rows' = f.rows
          /\ next_token' = f.next_token
          /\ outcome' = f.outcome
          /\ sent' = f.sent
          /\ pollLog' = f.pollLog
          /\ pageLog' = f.pageLog
          /\ lastToken' = f.lastToken
          /\ submit_time' = f.submit_time
          /\ deadlineSeen' = f.deadlineSeen
          /\ cancelReply' = f.cancelReply
          /\ validation' = f.validation
          /\ execSeen' = f.execSeen
          /\ hist' = f.hist
    /\ UNCHANGED <<now, minted, issued, appVars, bindVars, keyVars>>

NextPair ==
    \/ Call(1, 1, TRUE)
    \/ \E r \in PairValidateReplies : ValidateResponse(r, 0, TRUE)
    \/ \E r \in PairExecReplies(self) : ExecuteResponse(r, 0)
    \/ \E r \in PairPollReplies(self) : PollResponse(r, 0)
    \/ SleepDone
    \/ CancelResponse("ok", 0)
    \/ \E r \in PairPageReplies(self) : PageResponse(r, 0)
    \/ Switch

SpecPair == Init /\ [][NextPair]_vars

----------------------------------------------------------------------------
(* The binding encoder: _format_bindings and _determine_binding.  A        *)
(* parameter mapping is the sequence of its values in insertion order, a   *)
(* Python string is a sequence of characters, and str(), int() and float() *)
(* are given by what they do on the values below.                          *)

MaxParams == 2
MaxStrLen == 3
MaxInt == 10

Chars == {"0", "1", "-", ".", " ", "a"}
DigitChars == <<"0", "1", "2", "3", "4", "5", "6", "7", "8", "9">>
IsDigit(c) == \E i \in 1..Len(DigitChars) : DigitChars[i] = c
DigitVal(c) == (CHOOSE i \in 1..Len(DigitChars) : DigitChars[i] = c) - 1

\* a float: sign, whole part and decimals without trailing zeros, or one of
\* the special values
NoFloat == [neg |-> FALSE, whole |-> 0, frac |-> <<>>, special |-> "none"]
Floats ==
    [neg : BOOLEAN, whole : 0..1, frac : {<<>>, <<"5">>}, special : {"none"}]
        \cup {[NoFloat EXCEPT !.special = "inf", !.neg = b] : b \in BOOLEAN}
        \cup {[NoFloat EXCEPT !.special = "nan"]}

\* the values of a JSON body: true/false, numbers, strings and null
BoolVal(b) == [ty |-> "bool", b |-> b, n |-> 0, f |-> NoFloat, s |-> <<>>]
IntVal(n) == [ty |-> "int", b |-> FALSE, n |-> n, f |-> NoFloat, s |-> <<>>]
FloatVal(f) == [ty |-> "float", b |-> FALSE, n |-> 0, f |-> f, s |-> <<>>]
StrVal(s) == [ty |-> "str", b |-> FALSE, n |-> 0, f |-> NoFloat, s |-> s]
NoneVal == [ty |-> "none", b |-> FALSE, n |-> 0, f |-> NoFloat, s |-> <<>>]

ParamValues ==
    {BoolVal(b) : b \in BOOLEAN}
        \cup {IntVal(n) : n \in {-MaxInt, -1, 0, 1, MaxInt}}
        \cup {FloatVal(f) : f \in Floats}
        \cup {StrVal(s) : s \in SeqsUpTo(Chars, MaxStrLen)}
        \cup {NoneVal}

ParamMappings == SeqsUpTo(ParamValues, MaxParams)

RECURSIVE LStrip(_)
LStrip(s) == IF s # <<>> /\ Head(s) = " " THEN LStrip(Tail(s)) ELSE s
RECURSIVE RStrip(_)
RStrip(s) ==
    IF s # <<>> /\ s[Len(s)] = " " THEN RStrip(SubSeq(s, 1, Len(s) - 1))
    ELSE s
Strip(s) == RStrip(LStrip(s))

Signed(s) == s # <<>> /\ Head(s) \in {"-", "+"}
Unsigned(s) == IF Signed(s) THEN Tail(s) ELSE s
AllDigits(s) == \A i \in 1..Len(s) : IsDigit(s[i])

RECURSIVE DigitsVal(_)
DigitsVal(s) ==
    IF s = <<>> THEN 0
    ELSE 10 * DigitsVal(SubSeq(s, 1, Len(s) - 1)) + DigitVal(s[Len(s)])

RECURSIVE NatToStr(_)
NatToStr(n) ==
    IF n < 10 THEN <<DigitChars[n + 1]>>
    ELSE NatToStr(n \div 10) \o <<DigitChars[(n % 10) + 1]>>

\* str() of an int
IntToStr(n) == IF n < 0 THEN <<"-">> \o NatToStr(-n) ELSE NatToStr(n)

RECURSIVE DropTrailingZeros(_)
DropTrailingZeros(s) ==
    IF s # <<>> /\ s[Len(s)] = "0"
    THEN DropTrailingZeros(SubSeq(s, 1, Len(s) - 1))
    ELSE s

\* str() of a float (repr): "1.0", "-0.0", "0.5", "inf", "-inf", "nan"
FloatToStr(f) ==
    IF f.special = "nan" THEN <<"n", "a", "n">>
    ELSE (IF f.neg THEN <<"-">> ELSE <<>>)
            \o (IF f.special = "inf" THEN <<"i", "n", "f">>
                ELSE NatToStr(f.whole) \o <<".">>
                        \o (IF f.frac = <<>> THEN <<"0">> ELSE f.frac))

\* the literals int() accepts: blanks, an optional sign, digits
IntLiteral(s) == LET t == Unsigned(Strip(s)) IN t # <<>> /\ AllDigits(t)
IntOfStr(s) ==
    LET t == Strip(s) IN
    IF Signed(t) /\ Head(t) = "-" THEN 0 - DigitsVal(Tail(t))
    ELSE DigitsVal(Unsigned(t))

\* the literals float() accepts: blanks, an optional sign, digits with at
\* most one point and a digit on one side of it at least
PointAt(t) == {i \in 1..Len(t) : t[i] = "."}
FloatLiteral(s) ==
    LET t == Unsigned(Strip(s)) IN
    \/ t # <<>> /\ AllDigits(t)
    \/ /\ Len(t) > 1
       /\ \E i \in PointAt(t) :
             /\ AllDigits(SubSeq(t, 1, i - 1))
             /\ AllDigits(SubSeq(t, i + 1, Len(t)))
FloatOfStr(s) ==
    LET st == Strip(s)
        t == Unsigned(st)
        i == IF PointAt(t) = {} THEN Len(t) + 1
             ELSE CHOOSE j \in PointAt(t) : TRUE
    IN  [neg |-> Signed(st) /\ Head(st) = "-",
         whole |-> DigitsVal(SubSeq(t, 1, i - 1)),
         frac |-> DropTrailingZeros(SubSeq(t, i + 1, Len(t))),
         special |-> "none"]

\* str(value)
Str(v) ==
    IF v.ty = "bool"
    THEN (IF v.b THEN <<"T", "r", "u", "e">> ELSE <<"F", "a", "l", "s", "e">>)
    ELSE IF v.ty = "int" THEN IntToStr(v.n)
    ELSE IF v.ty = "float" THEN FloatToStr(v.f)
    ELSE IF v.ty = "str" THEN v.s
    ELSE <<"N", "o", "n", "e">>

\* str.lower() on the letters that occur
Lower(s) ==
    [i \in 1..Len(s) |->
        IF s[i] = "T" THEN "t" ELSE IF s[i] = "F" THEN "f" ELSE s[i]]

\* int(value): the integer, or the exception it raises
IntAttempt(v) ==
    IF v.ty = "int" THEN [kind |-> "value", n |-> v.n]
    ELSE IF v.ty = "str"
    THEN (IF IntLiteral(v.s) THEN [kind |-> "value", n |-> IntOfStr(v.s)]
          ELSE [kind |-> "ValueError", n |-> 0])
    ELSE IF v.ty = "float"
    THEN (IF v.f.special = "inf" THEN [kind |-> "OverflowError", n |-> 0]
          ELSE IF v.f.special = "nan" THEN [kind |-> "ValueError", n |-> 0]
          ELSE [kind |-> "value",
                n |-> IF v.f.neg THEN 0 - v.f.whole ELSE v.f.whole])
    ELSE [kind |-> "TypeError", n |-> 0]

\* float(value): the float, or the exception it raises
FloatAttempt(v) ==
    IF v.ty = "float" THEN [kind |-> "value", f |-> v.f]
    ELSE IF v.ty = "int"
    THEN [kind |-> "value",
          f |-> [NoFloat EXCEPT !.neg = v.n < 0,
                                !.whole = IF v.n < 0 THEN 0 - v.n ELSE v.n]]
    ELSE IF v.ty = "str"
    THEN (IF FloatLiteral(v.s) THEN [kind |-> "value", f |-> FloatOfStr(v.s)]
          ELSE [kind |-> "ValueError", f |-> NoFloat])
    ELSE [kind |-> "TypeError", f |-> NoFloat]

Tags == {"BOOLEAN", "FIXED", "REAL", "TEXT"}
Binding(tag, val) == [type |-> tag, value |-> val]

\* _determine_binding, lines 160-185.  The handlers of lines 177 and 182
\* catch ValueError and TypeError; another exception of int() leaves the
\* function, and the result then names it instead of a tag.
DetermineBinding(value) ==
    IF value.ty = "bool" THEN Binding("BOOLEAN", Lower(Str(value)))
    ELSE LET int_val == IntAttempt(value) IN
         IF int_val.kind \notin {"value", "ValueError", "TypeError"}
         THEN Binding(int_val.kind, <<>>)
         ELSE IF int_val.kind = "value" /\ IntToStr(int_val.n) = Str(value)
         THEN Binding("FIXED", IntToStr(int_val.n))
         ELSE LET float_val == FloatAttempt(value) IN
              IF float_val.kind = "value"
              THEN Binding("REAL", FloatToStr(float_val.f))
              ELSE Binding("TEXT", Str(value))

\* _format_bindings, lines 153-158: a dict from str(index) to the binding,
\* unless _determine_binding raised
FormatBindings(params) ==
    IF \E i \in 1..Len(params) : DetermineBinding(params[i]).type \notin Tags
    THEN [status |-> "raised", map |-> {}]
    ELSE [status |-> "ok",
          map |-> {<<IntToStr(index), DetermineBinding(params[index])>> :
                      index \in 1..Len(params)}]

InitBind ==
    /\ InitExecutor
    /\ InitKey
    /\ parameters \in ParamMappings
    /\ bindings = NotEncoded

\* the encoder is applied to the mapping
Encode ==
    /\ bindings.status = "none"
    /\ bindings' = FormatBindings(parameters)
    /\ UNCHANGED <<parameters, callVars, appVars, pairVars, keyVars>>

NextBind == Encode

SpecBind == InitBind /\ [][NextBind]_vars

----------------------------------------------------------------------------
(* The credential object: SnowflakeKeyPair, keypair_auth1.py.  The file at *)
(* private_key_path can be replaced, removed or left undecryptable between *)
(* two calls; a load fails while reading it (lines 40-41) or in            *)
(* load_pem_private_key (line 49), before anything is assigned.  Lines     *)
(* 56-66 compute on the key already in memory.                             *)

MaxKeyOps == 3

Keys == {"k1", "k2"}
KeyFiles == [key : Keys, readable : BOOLEAN, decrypts : BOOLEAN]

\* lines 56-66: the base64 SHA-256 digest of the DER public key
Fingerprint(k) == IF k = "k1" THEN "fp1" ELSE "fp2"

\* a load that computes the fingerprint the first time only
LoadPrivateKey_KeepsFingerprint(file, key, fp) ==
    IF ~file.readable THEN [private_key |-> key, public_key_fp |-> fp,
                            result |-> "read"]
    ELSE IF ~file.decrypts THEN [private_key |-> key, public_key_fp |-> fp,
                                 result |-> "decrypt"]
    ELSE [private_key |-> file.key,
          public_key_fp |-> IF fp = "none" THEN Fingerprint(file.key) ELSE fp,
          result |-> "ok"]

\* load_private_key, lines 37-76: the attributes after the call and how it
\* ended
LoadPrivateKey(file, key, fp) ==
    IF ~file.readable THEN [private_key |-> key, public_key_fp |-> fp,
                            result |-> "read"]
    ELSE IF ~file.decrypts THEN [private_key |-> key, public_key_fp |-> fp,
                                 result |-> "decrypt"]
    ELSE [private_key |-> file.key, public_key_fp |-> Fingerprint(file.key),
          result |-> "ok"]

\* the attributes after `if not self.private_key: self.load_private_key()`
LoadIfAbsent(file, key, fp) ==
    IF key = "none" THEN LoadPrivateKey(file, key, fp)
    ELSE [private_key |-> key, public_key_fp |-> fp, result |-> "ok"]

KeyOp(op, after) ==
    /\ private_key' = after.private_key
    /\ public_key_fp' = after.public_key_fp
    /\ keyLog' = Append(keyLog, [op |-> op, result |-> after.result,
                                 fp |-> after.public_key_fp])
    /\ UNCHANGED <<keyFile, callVars, appVars, pairVars, bindVars>>

\* test_key_decryption, lines 119-126: always loads
TestKeyDecryption ==
    /\ Len(keyLog) < MaxKeyOps
    /\ KeyOp("test", LoadPrivateKey(keyFile, private_key, public_key_fp))

\* create_jwt_token, lines 95-117: the issuer names public_key_fp
SignToken ==
    /\ Len(keyLog) < MaxKeyOps
    /\ KeyOp("jwt", LoadIfAbsent(keyFile, private_key, public_key_fp))

\* get_public_key_pem, lines 78-93
GetPublicKeyPem ==
    /\ Len(keyLog) < MaxKeyOps
    /\ KeyOp("pem", LoadIfAbsent(keyFile, private_key, public_key_fp))

\* the file is replaced, removed, or rewritten under another passphrase
ReplaceKeyFile(file) ==
    /\ keyFile' = file
    /\ file # keyFile
    /\ UNCHANGED <<private_key, public_key_fp, keyLog, callVars, appVars,
                   pairVars, bindVars>>

NextKey ==
    \/ TestKeyDecryption
    \/ SignToken
    \/ GetPublicKeyPem
    \/ \E file \in KeyFiles : ReplaceKeyFile(file)

SpecKey == Init /\ [][NextKey]_vars

----------------------------------------------------------------------------
(* One call under fair scheduling, with a remote that may go on announcing *)
(* pages.  Every awaited request returns and every sleep ends, so some     *)
(* step of the call is always taken while one is possible.                 *)

\* a page fetch answered with an empty page and one more continuation token,
\* after the MaxPages pages the logs hold: _fetch_all_pages lines 232-235
\* run as in PageResponse and the loop goes round (line 229).  The reply is
\* immediate; the logs keep the last request only and no further page.
PageResponseMore(tok) ==
    /\ pc = "page_wait"
    /\ Len(pageLog) = MaxPages
    /\ tok # next_token
    /\ UNCHANGED <<appVars, pairVars, bindVars, keyVars>>
    /\ now' = now
    /\ rows' = Extend(rows, <<>>)
    /\ next_token' = tok
    /\ lastToken' = tok
    /\ result' = result
    /\ IF MorePages(handle, tok)
       THEN /\ pc' = "page_wait"
            /\ sent' = [sent EXCEPT ![Len(sent)] = Request("page", headers, tok)]
            /\ outcome' = outcome
       ELSE Complete(ProcessResult(result, rows'), sent)
    /\ UNCHANGED <<timeout, poll_interval, start_time, headers, handle,
                   minted, pollLog, pageLog, submit_time, deadlineSeen,
                   cancelReply, validation, execSeen, hist, issued>>

\* the replies that differ in what the call does next: the rows, the message
\* and the declared number of rows are fixed, one status stands for each of
\* the three ways a status is handled, and only the replies to a poll take
\* time, the clock being read in the poll loop alone
Plain(r) == r.data = <<>> /\ r.message = NoMsg /\ r.numRows = NoNum

LiveValidateReplies == {r \in ValidateReplies : r.message = NoMsg}
LiveExecReplies == {r \in ExecReplies : Plain(r)}
LivePollReplies ==
    {r \in PollReplies :
        /\ Plain(r)
        /\ r.status \in {"SUCCESS", "FAILED", "RUNNING"}
        /\ r.err = "none" => r.statementHandle # NoHandle}
LivePageReplies == {r \in PageReplies : r.data = <<>>}

NextLive ==
    \/ \E to \in 1..MaxTimeout, pi \in 1..MaxPollInterval, a \in BOOLEAN :
          Call(to, pi, a)
    \/ \E r \in LiveValidateReplies, a \in BOOLEAN : ValidateResponse(r, 0, a)
    \/ \E r \in LiveExecReplies : ExecuteResponse(r, 0)
    \/ \E r \in LivePollReplies, d \in Delays : PollResponse(r, d)
    \/ SleepDone
    \/ \E reply \in CancelReplies : CancelResponse(reply, 0)
    \/ \E r \in LivePageReplies : PageResponse(r, 0)
    \/ \E tok \in Tokens : PageResponseMore(tok)

SpecLive == Init /\ [][NextLive]_vars /\ WF_vars(NextLive)

----------------------------------------------------------------------------
(* Properties *)

Last(seq) == seq[Len(seq)]
OnlyValidationSent == Len(sent) = 1 /\ sent[1].kind = "validate"

\* every status poll sent so far has been answered by a reply that parsed
PollsAnswered ==
    Count("poll") = Len(pollLog) + (IF pc = "poll_wait" THEN 1 ELSE 0)

\* the poll loop was left by an exception other than the deadline's: a
\* failure status, or a status poll that failed
PollLoopFailed ==
    \/ pollLog # <<>> /\ Last(pollLog) \in FailureStatuses
    \/ pc # "poll_wait" /\ Count("poll") > Len(pollLog)

\* every page fetch sent has been answered by a reply that parsed
PagesAnswered == Count("page") = Len(pageLog) - 1

\* C1: when the dry run does not succeed (HTTP error, transport error,
\* undecodable body or a code other than the success code), execute_sql has
\* failed and the validation request is the only request ever sent: no
\* execution, poll, page-fetch or cancel request.
C1_ValidationFailureSendsNothing ==
    validation = "failed" =>
        /\ pc = "done"
        /\ outcome.status = "error"
        /\ outcome.kind \in {"Validation", "ValidationApi"}
        /\ OnlyValidationSent
        /\ Count("execute") = 0 /\ Count("poll") = 0
        /\ Count("page") = 0 /\ Count("cancel") = 0

C1_Witness ==
    /\ pc = "done"
    /\ validation = "failed"
    /\ outcome.cause = "code"

\* C2: when the execution request is answered synchronously (not 202, not
\* the running code) with the success code and no continuation token,
\* execute_sql has returned success=true with exactly the rows of that one
\* reply, and no status poll, page fetch or cancel was sent.
C2_SyncSuccess ==
    (execSeen.kind = "sync" /\ execSeen.code = SuccessCode
        /\ execSeen.token = NoToken) =>
        /\ pc = "done"
        /\ outcome.status = "success"
        /\ outcome.data = execSeen.data
        /\ Count("poll") = 0 /\ Count("cancel") = 0 /\ Count("page") = 0

C2_Witness ==
    /\ pc = "done"
    /\ execSeen.kind = "sync" /\ execSeen.code = SuccessCode
    /\ execSeen.token = NoToken /\ execSeen.data # <<>>
    /\ outcome.status = "success"

\* the case of C3: still running, a first status poll that is not terminal,
\* a second one that reports success
RunningThenSecondPollSucceeds ==
    /\ execSeen.kind = "running"
    /\ Len(pollLog) >= 2
    /\ pollLog[1] \notin SuccessStatuses \cup FailureStatuses
    /\ pollLog[2] \in SuccessStatuses

\* C3 as claimed: a statement that is running, then succeeds on the second
\* status poll, ends in a successful outcome after exactly two status polls
\* and no cancel.
C3_Original ==
    (pc = "done" /\ RunningThenSecondPollSucceeds) =>
        /\ outcome.status = "success"
        /\ Count("poll") = 2 /\ Count("cancel") = 0

\* C3 as amended: in that case exactly two status polls and no cancel are
\* sent, and the outcome is successful, with the rows of the pages in order,
\* exactly when the second poll reply carries the success code and every
\* page fetch it leads to is answered.
C3_TwoPollsThenSuccess ==
    RunningThenSecondPollSucceeds =>
        /\ Count("poll") = 2 /\ Count("cancel") = 0
        /\ pc \in {"page_wait", "done"}
        /\ pc = "done" =>
              /\ outcome.status = "success"
                    <=> (result.code = SuccessCode /\ PagesAnswered)
              /\ outcome.status = "success" =>
                    outcome.data = Flatten(pageLog)

C3_Witness ==
    /\ pc = "done"
    /\ RunningThenSecondPollSucceeds
    /\ outcome.status = "success"
    /\ outcome.data # <<>>

\* C4: when the poll loop finds the deadline exceeded, exactly one cancel
\* request is sent against the handle, it is the last request of the
\* execution (no poll or page fetch follows), and the execution ends with the
\* timeout failure; and an asynchronous execution whose answered polls were
\* all non-terminal ends in no other way.
C4_TimeoutCancelsOnce ==
    /\ deadlineSeen =>
          /\ Count("cancel") = 1
          /\ Last(sent) = Request("cancel", headers, handle)
          /\ pc \in {"cancel_wait", "done"}
          /\ pc = "done" => outcome = TimedOut
    /\ (pc = "done" /\ execSeen.kind = "running" /\ PollsAnswered
          /\ \A i \in 1..Len(pollLog) :
                pollLog[i] \notin SuccessStatuses \cup FailureStatuses) =>
          /\ outcome = TimedOut
          /\ Count("cancel") = 1

C4_Witness ==
    /\ pc = "done"
    /\ outcome = TimedOut
    /\ Len(pollLog) >= 1
    /\ Count("cancel") = 1

\* C5: the rows of a successful outcome are the rows of the first page
\* followed by the rows of every fetched page, in the order of the fetches,
\* nothing dropped, repeated, removed as a duplicate or moved.
C5_RowsAreConcatenation ==
    /\ pc = "page_wait" => rows = Flatten(pageLog)
    /\ outcome.status = "success" => outcome.data = Flatten(pageLog)

C5_Witness ==
    /\ outcome.status = "success"
    /\ Len(pageLog) = 3
    /\ pageLog[1] # <<>> /\ pageLog[2] # pageLog[1] /\ pageLog[3] = pageLog[1]

C7_DeadlineFromFirstSubmission ==
    pc = "poll_wait" => now - submit_time <= timeout

\* C8 as claimed: when the poll loop ends in failure (failure status, or a
\* status poll that fails), a cancel request is sent before the failure is
\* surfaced.
C8_Original ==
    (pc = "done" /\ PollLoopFailed) => Count("cancel") >= 1

\* C8 as amended: a cancel request is sent before the failure is surfaced
\* only when the poll loop ends on the deadline; when it ends on a failure
\* status or on a status poll that fails, the failure is surfaced at once and
\* no cancel request is sent.
C8_CancelOnDeadlineOnly ==
    /\ PollLoopFailed =>
          /\ pc = "done"
          /\ outcome.status = "error"
          /\ outcome # TimedOut
          /\ Count("cancel") = 0
          /\ Last(sent).kind = "poll"
    /\ (pc = "done" /\ outcome = TimedOut) => Last(sent).kind = "cancel"

C8_Witness ==
    /\ pc = "done"
    /\ pollLog # <<>> /\ Last(pollLog) = "ABORTED"
    /\ outcome.cause = "query_failed"

\* C9: a cancel request is sent only if the poll loop saw the elapsed time
\* beyond the timeout; none is sent on the validation, synchronous,
\* remote-failure, pagination or decode paths.
C9_CancelOnlyOnDeadline ==
    /\ Count("cancel") >= 1 =>
          /\ deadlineSeen
          /\ execSeen.kind = "running"
          /\ now - start_time > timeout
          /\ pageLog = <<>>
    /\ (validation = "failed" \/ execSeen.kind \in {"sync", "error"}
          \/ pageLog # <<>> \/ PollLoopFailed) => Count("cancel") = 0

C9_Witness ==
    /\ Count("cancel") = 1
    /\ deadlineSeen
    /\ pc = "cancel_wait"

\* C10: when the cancel request fails with a transport exception or is
\* rejected, the execution still ends with the timeout failure, not with an
\* error about the cancel.
C10_CancelFailureNotEscalated ==
    (pc = "done" /\ cancelReply \in {"transport", "http"}) =>
        outcome = TimedOut

C10_Witness ==
    /\ pc = "done"
    /\ cancelReply = "transport"
    /\ outcome = TimedOut

----------------------------------------------------------------------------
(* Properties of the protocol, the failures and the tokens *)

Rank(kind) ==
    IF kind = "validate" THEN 1
    ELSE IF kind = "execute" THEN 2
    ELSE IF kind = "poll" THEN 3
    ELSE IF kind = "cancel" THEN 4
    ELSE 5

\* the requests so far are in the order validation, execution, status polls,
\* page fetches
InProtocolOrder ==
    /\ \A i, j \in 1..Len(sent) : i < j => Rank(sent[i].kind) <= Rank(sent[j].kind)
    /\ sent # <<>> => sent[1].kind = "validate"
    /\ Count("validate") <= 1
    /\ Count("execute") <= 1

\* the statement was reported successful: a synchronous reply with the
\* success code, or a status poll with a success status
ReachedSuccess ==
    \/ execSeen.kind = "sync" /\ execSeen.code = SuccessCode
    \/ pollLog # <<>> /\ Last(pollLog) \in SuccessStatuses

\* C11: the requests of an execution follow the protocol order (validation,
\* at most one execution request, status polls, page fetches), no status poll
\* before the execution request or after a page fetch, and no page fetch
\* before the statement reached success.
C11_ProtocolOrder ==
    /\ InProtocolOrder
    /\ Count("page") >= 1 => ReachedSuccess

\* C12: the timeout failure comes out of the poll loop only: an execution
\* answered synchronously, or one that has consumed a first page, never ends
\* with it, however late it ends.
C12_TimeoutOnlyFromPollLoop ==
    /\ outcome.cause = "timeout" =>
          /\ execSeen.kind = "running"
          /\ pageLog = <<>>
          /\ Last(sent).kind = "cancel"
    /\ (execSeen.kind = "sync" \/ pageLog # <<>>) =>
          /\ outcome # TimedOut
          /\ pc \in {"page_wait", "done"}
          /\ Count("cancel") = 0

C12_Witness ==
    /\ pc = "done"
    /\ execSeen.kind = "running"
    /\ Len(pageLog) >= 2
    /\ now - hist.loopStart > timeout
    /\ outcome.status = "success"

\* the request that failed is the last one sent, and it was sent once
FailedRequestIsLast ==
    LET kind == hist.failed[1] IN
    /\ Last(sent).kind = kind
    /\ Count("validate") = 1
    /\ kind = "validate" => Len(sent) = 1
    /\ kind = "execute" => Len(sent) = 2
    /\ kind = "poll" => Count("poll") = Len(pollLog) + 1 /\ Count("page") = 0
    /\ kind = "page" => Count("page") = Len(pageLog)

\* C13: when a validation, execution, status-poll or page-fetch request
\* fails with a network error, an HTTP error status or a body that does not
\* decode, the execution has failed, that request was sent once, and no
\* request was sent after it.
C13_NoRetryAfterTransportFailure ==
    (hist.failed[1] \in {"validate", "execute", "poll", "page"}
        /\ hist.failed[2] \in Errs) =>
        /\ pc = "done"
        /\ outcome.status = "error"
        /\ FailedRequestIsLast

C13_Witness ==
    /\ pc = "done"
    /\ hist.failed = <<"page", "transport">>
    /\ Count("poll") >= 1

\* C14: when issuing the auth headers fails, the execution has failed and no
\* request carrying the caller's statement was sent, nor any status poll,
\* page fetch or cancel.
C14_CredentialFailureSendsNoStatement ==
    hist.failed[1] = "auth" =>
        /\ pc = "done"
        /\ outcome = AuthFailure
        /\ Count("execute") = 0 /\ Count("poll") = 0
        /\ Count("page") = 0 /\ Count("cancel") = 0
        /\ \A i \in 1..Len(sent) : sent[i].kind = "validate"

C14_Witness ==
    /\ pc = "done"
    /\ hist.failed[1] = "auth"
    /\ sent = <<>>

\* the pagination loop was left without an exception, so that the decoder ran
DecodeReached ==
    /\ pc = "done"
    /\ pageLog # <<>>
    /\ PagesAnswered

\* what happened to the execution, from the history
EventClass ==
    IF hist.failed[1] = "auth" THEN "Credential"
    ELSE IF hist.failed[1] = "validate" THEN "ValidationFailed"
    ELSE IF hist.failed[1] \in {"execute", "poll", "page"}
         THEN "TransportError"
    ELSE IF deadlineSeen THEN "TimedOut"
    ELSE IF \/ pollLog # <<>> /\ Last(pollLog) \in FailureStatuses
            \/ DecodeReached /\ hist.firstCode # SuccessCode
         THEN "RemoteQueryFailed"
    ELSE "Success"

\* what the caller reads off the outcome: the prefix and the detail of the
\* message of the exception
OutcomeClass ==
    IF outcome.status = "success" THEN "Success"
    ELSE IF outcome.kind = "AuthHeaders" THEN "Credential"
    ELSE IF outcome.kind \in {"Validation", "ValidationApi"}
         THEN "ValidationFailed"
    ELSE IF outcome.kind = "Api" THEN "TransportError"
    ELSE IF outcome.kind = "Execution" /\ outcome.cause = "timeout"
         THEN "TimedOut"
    ELSE IF outcome.kind = "Execution" /\ outcome.cause = "query_failed"
         THEN "RemoteQueryFailed"
    ELSE IF outcome.kind = "Execution"
              /\ outcome.cause \in {"transport", "decode"}
         THEN "TransportError"
    ELSE "Unknown"

C16_DecodeChecksCode ==
    /\ DecodeReached =>
          /\ hist.firstCode # SuccessCode => outcome = QueryFailed(hist.firstMsg)
          /\ hist.firstCode = SuccessCode => outcome.status = "success"
          /\ Len(sent) = 2 + Len(pollLog) + (Len(pageLog) - 1)
    /\ outcome.status = "success" =>
          /\ DecodeReached
          /\ hist.firstCode = SuccessCode

C16_Witness ==
    /\ DecodeReached
    /\ hist.firstCode = OtherCode
    /\ hist.firstMsg = "m1"
    /\ outcome = QueryFailed("m1")
    /\ Len(pageLog) >= 2

\* C17: the HTTP transport is acquired once, at service start, and every
\* transport that was acquired is closed once the service has shut down;
\* serving requests acquires no further transport.
C17_TransportScopedLifetime ==
    /\ phase # "created" => Len(clients) = 1
    /\ phase = "stopped" => \A i \in 1..Len(clients) : clients[i].closed

\* the header ids of the requests of a frame
HeaderIds(f) == {f.sent[i].hdr : i \in 1..Len(f.sent)}

\* C18: of two execute_sql calls interleaved at their awaits, each keeps its
\* own row buffer, handle, headers and deadline: the rows of a call are the
\* pages it was served, its polls and its cancel name its own handle, its
\* requests carry the headers it was issued, its deadline counts from its
\* own entry into the poll loop, and its requests and its outcome are those
\* its own replies lead to.
C18_ConcurrentCallsIsolated ==
    /\ pc = "page_wait" => rows = Flatten(pageLog)
    /\ (pc = "done" /\ outcome.status = "success") =>
          /\ outcome.data = Flatten(pageLog)
          /\ \A i \in 1..Len(outcome.data) : outcome.data[i] = self
          /\ outcome.query_id = PairHandle(self)
    /\ execSeen.kind \in {"running", "sync"} =>
          /\ handle = PairHandle(self)
          /\ hist.gotHandle = PairHandle(self)
    /\ \A i \in 1..Len(sent) :
          /\ sent[i].kind \in {"poll", "cancel"} => sent[i].arg = PairHandle(self)
          /\ i >= 2 => sent[i].hdr = sent[2].hdr
    /\ sent # <<>> => headers = Last(sent).hdr
    /\ HeaderIds(CurrentFrame) \cap HeaderIds(parked) = {}
    /\ execSeen.kind = "running" => start_time = hist.loopStart
    /\ Count("cancel") >= 1 => now - hist.loopStart > timeout
    /\ pc = "done" => OutcomeClass = EventClass
    /\ InProtocolOrder
    /\ PollsAnswered
    /\ pageLog # <<>> =>
          Count("page") = Len(pageLog) - 1
              + (IF pc = "page_wait" \/ hist.failed[1] = "page" THEN 1 ELSE 0)

C18_Witness ==
    /\ pc = "done" /\ parked.pc = "done"
    /\ Len(sent) >= 2 /\ Len(parked.sent) >= 2
    /\ sent[1].hdr = 1 /\ parked.sent[1].hdr = 2 /\ sent[2].hdr > 2
    /\ outcome.status = "success"
    /\ outcome.data = <<self, self>>
    /\ Count("poll") >= 1
    /\ parked.outcome.cause = "timeout"

\* C19: the expiry claim of every token issued is its issued-at claim plus
\* 3600 seconds.
C19_ExpiryIsIssuedAtPlusTTL ==
    \A i \in 1..Len(issued) : issued[i].exp = issued[i].iat + 3600

C19_Witness ==
    /\ Len(issued) = 2
    /\ issued[1].iat = 0
    /\ issued[2].iat > 0

\* the header sets of the requests so far: the validation request carries
\* the first token, the execution request the second, and every status poll,
\* page fetch and cancel the headers of the execution request
HeadersAsIssued ==
    /\ minted = Len(issued)
    /\ Len(issued) = Count("validate") + Count("execute")
    /\ Len(issued) <= 2
    /\ \A i \in 1..Len(sent) :
          /\ sent[i].kind = "validate" => sent[i].hdr = 1
          /\ sent[i].kind # "validate" => sent[i].hdr = 2
          /\ sent[i].hdr \in 1..Len(issued)
    /\ Count("execute") = 1 => headers = 2

\* C20: every request for auth headers signs a new token whose issued-at is
\* the time of that request; an execution asks for headers once for the
\* validation and once for the execution request, and the second header set
\* goes unchanged with every status poll, page fetch and cancel.
C20_FreshTokenPerHeaderRequest ==
    [][/\ HeadersAsIssued'
       /\ Count("validate")' + Count("execute")'
             = Count("validate") + Count("execute") + 1 =>
             /\ Len(issued') = Len(issued) + 1
             /\ issued'[Len(issued')].iat = now'
             /\ SubSeq(issued', 1, Len(issued)) = issued]_vars

C20_Witness ==
    /\ pc = "done"
    /\ Len(issued) = 2
    /\ issued[2].iat > issued[1].iat
    /\ Count("poll") >= 1 /\ Count("page") >= 1
    /\ \A i \in 3..Len(sent) : sent[i].hdr = 2

----------------------------------------------------------------------------
(* Properties of the encoder *)

\* the binding stored under the key of position i
BindingAt(i) == {b \in bindings.map : b[1] = IntToStr(i)}

\* C21: for a mapping of N values the encoder returns exactly N bindings,
\* keyed "1".."N"; the binding of key i is the encoding of the i-th value in
\* insertion order and has one type tag out of BOOLEAN, FIXED, REAL, TEXT.
C21_OneBindingPerPosition ==
    bindings.status # "none" =>
        /\ bindings.status = "ok"
        /\ Cardinality(bindings.map) = Len(parameters)
        /\ \A i \in 1..Len(parameters) :
              /\ BindingAt(i) = {<<IntToStr(i), DetermineBinding(parameters[i])>>}
              /\ \A b \in BindingAt(i) : b[2].type \in Tags

\* the string form of the value survives int() and str()
RoundTrips(v) ==
    \/ v.ty = "int"
    \/ v.ty = "str" /\ IntLiteral(v.s) /\ IntToStr(IntOfStr(v.s)) = v.s

\* the value is a number or a string float() accepts
ParsesAsNumber(v) ==
    \/ v.ty \in {"int", "float"}
    \/ v.ty = "str" /\ FloatLiteral(v.s)

\* the first rule of the inference order that matches the value
FirstMatch(v) ==
    IF v.ty = "bool" THEN "BOOLEAN"
    ELSE IF RoundTrips(v) THEN "FIXED"
    ELSE IF ParsesAsNumber(v) THEN "REAL"
    ELSE "TEXT"

\* C22: the tag of every value is the first match in the order boolean,
\* round-tripping integer, float, text: a boolean is BOOLEAN "true"/"false",
\* FIXED is given to round-tripping integers only, an integer literal that
\* does not round-trip is REAL or TEXT, and what is no number is TEXT.
C22_FirstMatchWins ==
    bindings.status # "none" =>
        \A i \in 1..Len(parameters) :
            LET v == parameters[i] IN
            /\ BindingAt(i) # {}
            /\ \A b \in BindingAt(i) :
                  /\ b[2].type = FirstMatch(v)
                  /\ v.ty = "bool" =>
                        b[2].value = IF v.b THEN <<"t", "r", "u", "e">>
                                     ELSE <<"f", "a", "l", "s", "e">>
                  /\ b[2].type = "FIXED" => b[2].value = Str(v)

\* the mappings without an infinite float
FiniteValues ==
    \A i \in 1..Len(parameters) :
        ~(parameters[i].ty = "float" /\ parameters[i].f.special = "inf")

\* on those mappings the encoder returns one binding per position, tagged
\* by the first match
EncodesFiniteValues ==
    FiniteValues => (C21_OneBindingPerPosition /\ C22_FirstMatchWins)

----------------------------------------------------------------------------
(* Properties of the credential object *)

----------------------------------------------------------------------------
(* Properties of the decoding, the metadata and the poll loop *)

\* C24: when the execution request is answered synchronously with a code
\* that is neither the running code nor the success code, the execution
\* fails with the remote's message and sends no status poll and no page
\* fetch, whatever else the reply carries.
C24_SyncFailureSendsNoPageFetch ==
    (execSeen.kind = "sync" /\ execSeen.code # SuccessCode) =>
        /\ Count("poll") = 0
        /\ Count("page") = 0
        /\ pc = "done"
        /\ outcome = QueryFailed(hist.firstMsg)

\* C25: the row count of an outcome is the number of rows the metadata of
\* the first page declares (0 when it declares none), not the number of rows
\* accumulated, and the metadata of the pages fetched later never changes
\* it; the column list is read from the same metadata object.
C25_MetadataOfFirstPage ==
    /\ pc = "page_wait" => result.numRows = hist.firstNum
    /\ outcome.status = "success" =>
          outcome.row_count = (IF hist.firstNum = NoNum THEN 0
                               ELSE hist.firstNum)

C25_Witness ==
    /\ pc = "done"
    /\ outcome.status = "success"
    /\ Len(pageLog) = 3
    /\ Len(outcome.data) = 3
    /\ hist.firstNum = 1
    /\ outcome.row_count = 1

TerminalStatuses == SuccessStatuses \cup FailureStatuses

\* C26: the deadline is checked at the head of the poll loop, before every
\* status poll, and nowhere else: a poll is sent only while the time spent
\* in the loop does not exceed the timeout, the first one without a sleep
\* and every other one after exactly one sleep of the poll interval; past
\* the deadline the loop head sends the cancel instead; and a reply that
\* reports success or failure is acted on, without a cancel, however late
\* it arrives.
C26_DeadlineCheckedBeforeEveryPoll ==
    [][/\ Count("poll")' = Count("poll") + 1 =>
             /\ now' - hist'.loopStart <= timeout'
             /\ \/ pc = "execute_wait" /\ Count("poll") = 0
                \/ pc = "sleeping"
       /\ (pc' = "sleeping" /\ pc # "sleeping") =>
             /\ pc = "poll_wait"
             /\ pollLog'[Len(pollLog')] \notin TerminalStatuses
       /\ (pc = "sleeping" /\ pc' # "sleeping") =>
             /\ now' = now + poll_interval
             /\ IF now' - hist.loopStart > timeout
                THEN /\ Count("poll")' = Count("poll")
                     /\ Count("cancel")' = 1
                     /\ pc' = "cancel_wait"
                ELSE /\ Count("poll")' = Count("poll") + 1
                     /\ pc' = "poll_wait"
       /\ Count("cancel")' > Count("cancel") => pc \in {"execute_wait", "sleeping"}
       /\ (pc = "poll_wait" /\ pollLog' # pollLog
              /\ pollLog'[Len(pollLog')] \in TerminalStatuses) =>
             /\ Count("cancel")' = 0
             /\ pc' \in {"page_wait", "done"}
             /\ outcome'.cause # "timeout"]_vars

C26_Witness ==
    /\ pc = "done"
    /\ Len(pollLog) >= 2
    /\ Last(pollLog) \in SuccessStatuses
    /\ Len(pageLog) = 1
    /\ now - hist.loopStart > timeout
    /\ outcome.status = "success"
    /\ Count("cancel") = 0

\* C27: after a poll reply with a success status the call succeeds only if
\* that same reply carries the success code; with any other code the call
\* fails, and the failure of the decode comes only once pagination is over:
\* every page the reply announced has been asked for and answered.
C27_PolledSuccessNeedsSuccessCode ==
    (pollLog # <<>> /\ Last(pollLog) \in SuccessStatuses) =>
        /\ outcome.status = "success" => hist.firstCode = SuccessCode
        /\ hist.firstCode # SuccessCode =>
              /\ pc \in {"page_wait", "done"}
              /\ pc = "done" =>
                    /\ outcome.status = "error"
                    /\ hist.failed[1] = "none" =>
                          /\ outcome = QueryFailed(hist.firstMsg)
                          /\ handle = NoHandle \/ lastToken = NoToken
                          /\ PagesAnswered

C27_Witness ==
    /\ pc = "done"
    /\ pollLog # <<>>
    /\ Last(pollLog) \in SuccessStatuses
    /\ hist.firstCode = OtherCode
    /\ Count("page") >= 1
    /\ PagesAnswered
    /\ outcome = QueryFailed(hist.firstMsg)

\* C28 as claimed: every call that has started reaches a terminal outcome,
\* whatever the remote answers, and keeps that one outcome.
C28_EveryExecutionTerminates ==
    /\ (pc # "idle") ~> (pc = "done")
    /\ [][pc = "done" => pc' = "done" /\ outcome' = outcome]_vars

\* C28, amended: every call that has started leaves validation, execution,
\* the poll loop and the cancel, no poll being sent past the deadline; it
\* reaches a terminal outcome unless the remote answers every page fetch
\* with one more continuation token, in which case it fetches pages for
\* ever; an outcome is set exactly when the call has ended and never
\* changes afterwards.
C28_TerminatesUnlessPagesNeverEnd ==
    /\ (pc # "idle") ~> (pc \in {"page_wait", "done"})
    /\ <>(pc = "done") \/ <>[](pc = "page_wait" /\ next_token # NoToken)
    /\ [][pc' = "poll_wait" => now' - hist'.loopStart <= timeout']_vars
    /\ [][(pc' = "done") <=> (outcome' # Pending)]_vars
    /\ [][pc = "done" => pc' = "done" /\ outcome' = outcome]_vars

C28_Witness ==
    /\ pc = "done"
    /\ Len(pollLog) >= 2
    /\ Len(pageLog) = MaxPages + 1
    /\ sent[Len(sent)].kind = "page"
    /\ sent[Len(sent)].arg # MaxPages
    /\ outcome.status = "success"

\* C29: a request whose authenticate() returned false is answered 401, by
\* POST /test-auth as by the query endpoints, and POST /test-auth answers
\* 500 only when authentication raised.
C29_FailedAuthenticationIs401 ==
    \A i \in 1..Len(requests) :
        /\ requests[i].auth = "false" => requests[i].status = "401"
        /\ (requests[i].endpoint = "test_auth" /\ requests[i].status = "500") =>
              requests[i].auth = "raised"

====
